---- MODULE Spec2Model ----
(***************************************************************************)
(* A model of the tracing collector of src/lib.rs: the Heap's object table, *)
(* the host's Root and Gc handles, and allocate()/collect() with the        *)
(* pre-pass, root-set construction, mark and sweep.                         *)
(*                                                                          *)
(* A payload T is modelled by the sequence of Gc fields it holds (the test  *)
(* type Object is <<>> for Nil and <<t>> for Cons); its trace() reports     *)
(* every field.  Rc::strong_count is 1 for the table's own Rc plus 1 when   *)
(* the host holds the (move-only) Root; Rc::weak_count is the number of Gc  *)
(* handles in existence: those the host holds, those stored in payloads of  *)
(* headers that have not been dropped, and those of a payload on its way    *)
(* into allocate().  A panic ends the program: no operation follows it.     *)
(***************************************************************************)
EXTENDS Integers, Sequences, FiniteSets, TLC

\* Bounds of the model.
MaxAllocs == 4      \* allocate() calls per behaviour (ids 0 .. MaxAllocs-1)
MaxThreshold == 2   \* largest collect_threshold passed to Heap::new
MaxFields == 1      \* Gc fields per payload
MaxHeld == 2        \* Gc handles the host holds at a time
StepAllocs == 3     \* allocate() calls per behaviour when collect() runs in steps

Ids == 0 .. (MaxAllocs - 1)
NoId == -1

VARIABLES
    objects,            \* Heap.objects: ObjectId -> Header [marked, obj]
    next_id,            \* Heap.next_id
    collect_threshold,  \* Heap.collect_threshold
    roots,              \* ids whose Root the host holds
    gcs,                \* id -> number of Gc handles to it the host holds
    panicked,           \* "none", or the panic that ended the program
    cycle,              \* the collect() call made by the last operation
    auto_collections,   \* collect() calls made by allocate() so far
    assigned,           \* ids handed out by allocate() so far
    scenario,           \* progress through allocate A; to_gc; allocate B(A); collect
    yielded,            \* what the Gc::deref just made gave the host
    run                 \* the collect() call in progress: its position and locals

vars == <<objects, next_id, collect_threshold, roots, gcs, panicked,
          cycle, auto_collections, assigned, scenario, yielded, run>>

----------------------------------------------------------------------------
\* Helpers on sequences and sets.

Range(s) == {s[i] : i \in 1 .. Len(s)}

Occurrences(s, x) == Cardinality({i \in 1 .. Len(s) : s[i] = x})

RECURSIVE Sum(_, _)
Sum(f, S) == IF S = {} THEN 0
             ELSE LET x == CHOOSE y \in S : TRUE IN f[x] + Sum(f, S \ {x})

Restrict(f, S) == [x \in S |-> f[x]]

RECURSIVE Orders(_)
\* Every order of the keys S.
Orders(S) == IF S = {} THEN {<<>>}
             ELSE UNION {{<<x>> \o o : o \in Orders(S \ {x})} : x \in S}

OrdersOf == [S \in SUBSET Ids |-> Orders(S)]

RECURSIVE Ascending(_)
Ascending(S) == IF S = {} THEN <<>>
                ELSE LET x == CHOOSE y \in S : \A z \in S : y <= z
                     IN <<x>> \o Ascending(S \ {x})

\* The orders in which the HashMap `objects` is iterated by collect().  The
\* rooted entries come in every order (it is the order of the root Vec, and
\* so of the mark traversal); retain() keeps a rooted entry wherever it
\* stands, so they are put first.  The unrooted entries follow by ascending
\* id: their order changes the number of passes of the pre-pass loop only.
IterationOrders(objs, rts) ==
    {o \o Ascending(DOMAIN objs \ rts) : o \in OrdersOf[DOMAIN objs \cap rts]}

\* The payloads a host can build: up to MaxFields Gc fields.
Payloads == UNION {[1 .. n -> Ids] : n \in 0 .. MaxFields}

----------------------------------------------------------------------------
\* Header

NewHeader(t) == [marked |-> FALSE, obj |-> t]

\* Mutant: mark() leaves the bit as it is.
HeaderMarkForgets(h) == h

HeaderMark(h) == [h EXCEPT !.marked = TRUE]

\* Mutant: clear() leaves the bit as it is.
HeaderClearForgets(h) == h

HeaderClear(h) == [h EXCEPT !.marked = FALSE]

HeaderMarked(h) == h.marked = TRUE

----------------------------------------------------------------------------
\* Reference counts of the Rc<Header> of object id.

\* Rc::strong_count: the table's Rc plus the host's Root.
StrongCount(objs, rts, id) ==
    (IF id \in DOMAIN objs THEN 1 ELSE 0) + (IF id \in rts THEN 1 ELSE 0)

\* Rc::weak_count: Gc handles of the host, of the payloads of the headers
\* still in the table, and of the payload being allocated.
WeakCount(objs, held, pending, id) ==
    held[id]
    + Sum([o \in DOMAIN objs |-> Occurrences(objs[o].obj, id)], DOMAIN objs)
    + Occurrences(pending, id)

----------------------------------------------------------------------------
\* Heap::collect

\* The retain predicate of the pre-pass.
PrePassKeeps(objs, rts, held, pending, id) ==
    StrongCount(objs, rts, id) > 1 \/ WeakCount(objs, held, pending, id) > 0

RECURSIVE RetainPass(_, _, _, _, _)
\* One objects.retain(..) of the pre-pass, visiting the entries in `order`;
\* a removed header is dropped at once, and its payload's Gc fields with it.
RetainPass(objs, rts, held, pending, order) ==
    IF order = <<>> THEN objs
    ELSE LET id == Head(order)
             kept == IF PrePassKeeps(objs, rts, held, pending, id)
                     THEN objs
                     ELSE Restrict(objs, DOMAIN objs \ {id})
         IN RetainPass(kept, rts, held, pending, Tail(order))

SelectIn(order, S) == SelectSeq(order, LAMBDA x : x \in S)

\* Mutant: the loop breaks after its first pass.
PrePassDoneAtOnce(len, count) == TRUE

\* The break test of the pre-pass loop.
PrePassDone(len, count) == len = count

RECURSIVE PrePass(_, _, _, _, _)
\* loop { retain; if objects.len() == count { break } }
PrePass(objs, rts, held, pending, order) ==
    LET count == Cardinality(DOMAIN objs)
        after == RetainPass(objs, rts, held, pending, order)
    IN IF PrePassDone(Cardinality(DOMAIN after), count) THEN after
       ELSE PrePass(after, rts, held, pending, SelectIn(order, DOMAIN after))

\* Mutant: the filter asks for an ownership unit too many.
IsRootNever(objs, rts, id) == StrongCount(objs, rts, id) > 2

\* Mutant: the filter repeats the pre-pass predicate and seeds on Gc handles.
IsRootOrHeld(objs, rts, id) == StrongCount(objs, rts, id) > 1 \/ gcs[id] > 0

\* The filter of the root-set construction.
IsRoot(objs, rts, id) == StrongCount(objs, rts, id) > 1

\* The root Vec: the table's entries, in iteration order, that pass the filter.
BuildRoots(objs, rts, order) ==
    SelectSeq(order, LAMBDA id : id \in DOMAIN objs /\ IsRoot(objs, rts, id))

\* T::trace: the payload pushes every Gc field it holds.
Trace(h) == h.obj

\* Mutant: a popped Gc whose header is marked ends the loop (break).
AfterMarkedBreak(rest) == <<>>

\* `continue` on a popped Gc whose header is marked: the loop goes on with
\* the rest of the worklist.
AfterMarked(rest) == rest

RECURSIVE MarkLoop(_, _)
\* while let Some(gc) = tracer.objs.pop() { .. }; upgrade().unwrap() panics
\* when the target header has been dropped.
MarkLoop(objs, stack) ==
    IF stack = <<>> THEN [objects |-> objs, dangling |-> FALSE]
    ELSE LET gc == stack[Len(stack)]
             rest == SubSeq(stack, 1, Len(stack) - 1)
         IN IF gc \notin DOMAIN objs
            THEN [objects |-> objs, dangling |-> TRUE]
            ELSE IF HeaderMarked(objs[gc])
            THEN MarkLoop(objs, AfterMarked(rest))
            ELSE MarkLoop([objs EXCEPT ![gc] = HeaderMark(@)],
                          rest \o Trace(objs[gc]))

\* Mutant: the seeds are marked and their payloads never traced.
MarkRootsOnly(objs, rootVec) ==
    [objects |-> [id \in DOMAIN objs |->
                    IF id \in Range(rootVec) THEN HeaderMark(objs[id])
                    ELSE objs[id]],
     dangling |-> FALSE]

Mark(objs, rootVec) == MarkLoop(objs, rootVec)

\* Mutant: the sweep removes nothing.
SweepKeepsAll(objs, id) == TRUE

\* Mutant: the sweep spares every object some Gc in the heap still points at.
SweepKeepsObserved(objs, id) ==
    HeaderMarked(objs[id])
    \/ \E o \in DOMAIN objs : id \in Range(objs[o].obj)

\* The retain predicate of the sweep.
SweepKeeps(objs, id) == HeaderMarked(objs[id])

Sweep(objs) ==
    LET kept == {id \in DOMAIN objs : SweepKeeps(objs, id)}
    IN [id \in kept |-> HeaderClear(objs[id])]

\* Mutant: the count is taken after the pre-pass.
StartingCountAfterPrePass(objs, pruned) == Cardinality(DOMAIN pruned)

\* The count collect() subtracts the final length from.
StartingCount(objs, pruned) == Cardinality(DOMAIN objs)

\* collect() from the end of the pre-pass on: root set, mark, sweep and the
\* return value; objs is the table at the call, pruned the table the
\* pre-pass left.
CollectFrom(objs, pruned, rts, order) ==
    LET starting_count == StartingCount(objs, pruned)
        rootVec == BuildRoots(pruned, rts, SelectIn(order, DOMAIN pruned))
        marked == Mark(pruned, rootVec)
        swept == Sweep(marked.objects)
    IN IF marked.dangling
       THEN [objects |-> marked.objects, ret |-> 0, dangling |-> TRUE]
       ELSE [objects |-> swept,
             ret |-> starting_count - Cardinality(DOMAIN swept),
             dangling |-> FALSE]

\* collect(): the table it leaves, its return value, and whether mark panicked.
CollectResult(objs, rts, held, pending, order) ==
    IF DOMAIN objs = {}
    THEN [objects |-> objs, ret |-> 0, dangling |-> FALSE]
    ELSE CollectFrom(objs, PrePass(objs, rts, held, pending, order), rts, order)

\* Heap::object_count
ObjectCount(objs) == Cardinality(DOMAIN objs)

----------------------------------------------------------------------------
\* Records of what the last operation did.

NoCycle == [ran |-> FALSE, auto |-> FALSE, completed |-> FALSE,
            before |-> <<>>, seeds |-> {}, after |-> {}, ret |-> 0]

CycleOf(objs, rts, res, isAuto) ==
    [ran |-> TRUE, auto |-> isAuto, completed |-> ~res.dangling,
     before |-> objs, seeds |-> rts, after |-> DOMAIN res.objects,
     ret |-> res.ret]

Idle == [stage |-> "idle", a |-> NoId, b |-> NoId]

\* No Gc::deref has just been made.
NoYield == [ok |-> FALSE, id |-> NoId, obj |-> <<>>]

\* No collect() call is in progress.
NotRunning ==
    [pc |-> "idle", caller |-> "none", t |-> <<>>, id |-> NoId,
     before |-> <<>>, starting_count |-> 0, order |-> <<>>, count |-> 0,
     todo |-> <<>>, tracer |-> <<>>, traced |-> [id \in Ids |-> 0]]

\* The program has not panicked and the host has the control.
Running == panicked = "none" /\ run.pc = "idle"

----------------------------------------------------------------------------
Init ==
    /\ objects = <<>>
    /\ next_id = 0
    /\ collect_threshold \in 0 .. MaxThreshold
    /\ roots = {}
    /\ gcs = [id \in Ids |-> 0]
    /\ panicked = "none"
    /\ cycle = NoCycle
    /\ auto_collections = 0
    /\ assigned = {}
    /\ scenario = Idle
    /\ yielded = NoYield
    /\ run = NotRunning

\* The number of Gc handles the host holds.
HeldTotal == Sum(gcs, Ids)

\* The host can move the Gc handles of payload t out of its hands.
Holds(t) == \A id \in Range(t) : Occurrences(t, id) <= gcs[id]

MoveOut(t) == [id \in Ids |-> gcs[id] - Occurrences(t, id)]

\* Mutant: the counter is written back unchanged.
BumpIdStuck(id) == id

\* The id allocate() leaves in next_id.
BumpId(id) == id + 1

\* Mutant: the trigger skips the first allocation.
ShouldCollectSkipFirst(id, threshold) == id > 0 /\ (id % threshold) = 0

\* Mutant: the trigger fires on the last id of an epoch, not the first.
ShouldCollectLate(id, threshold) == (id % threshold) = threshold - 1

\* The epoch trigger of allocate().
ShouldCollect(id, threshold) == (id % threshold) = 0

\* Heap::allocate(t) with the payload t built from Gc handles the host held.
Allocate(t) ==
    /\ Running
    /\ yielded' = NoYield
    /\ run' = run
    /\ next_id < MaxAllocs
    /\ Holds(t)
    /\ LET id == next_id
           held == MoveOut(t)
       IN /\ next_id' = BumpId(id)
          /\ assigned' = assigned \cup {id}
          /\ gcs' = held
          /\ IF collect_threshold = 0
             THEN \* id % 0 panics
                  /\ panicked' = "remainder by zero"
                  /\ UNCHANGED <<objects, roots, auto_collections>>
                  /\ cycle' = NoCycle
                  /\ scenario' = Idle
             ELSE IF ShouldCollect(id, collect_threshold)
             THEN \E order \in IterationOrders(objects, roots) :
                    LET res == CollectResult(objects, roots, held, t, order)
                    IN /\ auto_collections' = auto_collections + 1
                       /\ cycle' = CycleOf(objects, roots, res, TRUE)
                       /\ IF res.dangling
                          THEN /\ panicked' = "dangling edge"
                               /\ objects' = res.objects
                               /\ roots' = roots
                               /\ scenario' = Idle
                          ELSE /\ panicked' = panicked
                               /\ objects' = (id :> NewHeader(t)) @@ res.objects
                               /\ roots' = roots \cup {id}
                               /\ scenario' =
                                    IF scenario.stage = "gcA" /\ scenario.a \in Range(t)
                                    THEN [stage |-> "allocB", a |-> scenario.a, b |-> id]
                                    ELSE [stage |-> "allocA", a |-> id, b |-> NoId]
             ELSE /\ objects' = (id :> NewHeader(t)) @@ objects
                  /\ roots' = roots \cup {id}
                  /\ cycle' = NoCycle
                  /\ scenario' =
                       IF scenario.stage = "gcA" /\ scenario.a \in Range(t)
                       THEN [stage |-> "allocB", a |-> scenario.a, b |-> id]
                       ELSE [stage |-> "allocA", a |-> id, b |-> NoId]
                  /\ UNCHANGED <<panicked, auto_collections>>
    /\ UNCHANGED collect_threshold

\* Heap::collect() called by the host.
Collect ==
    /\ Running
    /\ yielded' = NoYield
    /\ run' = run
    /\ \E order \in IterationOrders(objects, roots) :
         LET res == CollectResult(objects, roots, gcs, <<>>, order)
         IN /\ objects' = res.objects
            /\ panicked' = IF res.dangling THEN "dangling edge" ELSE panicked
            /\ cycle' = CycleOf(objects, roots, res, FALSE)
    /\ scenario' = IF scenario.stage = "allocB"
                   THEN [scenario EXCEPT !.stage = "collected"]
                   ELSE Idle
    /\ UNCHANGED <<next_id, collect_threshold, roots, gcs, auto_collections,
                   assigned>>

\* Mutant: the table owns nothing, and the object goes with its Root.
DropRootFrees(id) ==
    /\ Running
    /\ yielded' = NoYield
    /\ run' = run
    /\ id \in roots
    /\ roots' = roots \ {id}
    /\ objects' = Restrict(objects, DOMAIN objects \ {id})
    /\ cycle' = NoCycle
    /\ scenario' = Idle
    /\ UNCHANGED <<next_id, collect_threshold, gcs, panicked,
                   auto_collections, assigned>>

\* The host drops the Root of object id.
DropRoot(id) ==
    /\ Running
    /\ yielded' = NoYield
    /\ run' = run
    /\ id \in roots
    /\ roots' = roots \ {id}
    /\ cycle' = NoCycle
    /\ scenario' = Idle
    /\ UNCHANGED <<objects, next_id, collect_threshold, gcs, panicked,
                   auto_collections, assigned>>

\* Root::to_gc (and From<Root> for Gc): consumes the Root, yields a Gc.
ToGc(id) ==
    /\ Running
    /\ yielded' = NoYield
    /\ run' = run
    /\ id \in roots
    /\ HeldTotal < MaxHeld
    /\ roots' = roots \ {id}
    /\ gcs' = [gcs EXCEPT ![id] = @ + 1]
    /\ cycle' = NoCycle
    /\ scenario' = IF scenario.stage = "allocA" /\ scenario.a = id
                   THEN [scenario EXCEPT !.stage = "gcA"]
                   ELSE Idle
    /\ UNCHANGED <<objects, next_id, collect_threshold, panicked,
                   auto_collections, assigned>>

\* Root::as_gc: a Gc from a borrowed Root.
AsGc(id) ==
    /\ Running
    /\ yielded' = NoYield
    /\ run' = run
    /\ id \in roots
    /\ HeldTotal < MaxHeld
    /\ gcs' = [gcs EXCEPT ![id] = @ + 1]
    /\ cycle' = NoCycle
    /\ scenario' = Idle
    /\ UNCHANGED <<objects, next_id, collect_threshold, roots, panicked,
                   auto_collections, assigned>>

\* Gc::clone
CloneGc(id) ==
    /\ Running
    /\ yielded' = NoYield
    /\ run' = run
    /\ gcs[id] > 0
    /\ HeldTotal < MaxHeld
    /\ gcs' = [gcs EXCEPT ![id] = @ + 1]
    /\ cycle' = NoCycle
    /\ scenario' = Idle
    /\ UNCHANGED <<objects, next_id, collect_threshold, roots, panicked,
                   auto_collections, assigned>>

\* The host drops a Gc handle.
DropGc(id) ==
    /\ Running
    /\ yielded' = NoYield
    /\ run' = run
    /\ gcs[id] > 0
    /\ gcs' = [gcs EXCEPT ![id] = @ - 1]
    /\ cycle' = NoCycle
    /\ scenario' = Idle
    /\ UNCHANGED <<objects, next_id, collect_threshold, roots, panicked,
                   auto_collections, assigned>>

\* Mutant: upgrade() succeeds while any Gc to the object exists.
UpgradableWhileObserved(id) == WeakCount(objects, gcs, <<>>, id) > 0

\* Gc::deref succeeds exactly when upgrade() does: the header is not dropped.
Upgradable(id) == StrongCount(objects, roots, id) > 0

\* &root.obj, the payload Gc::deref hands out; what stands at the address
\* of a dropped header is not the program's to tell.
PayloadOf(id) == IF id \in DOMAIN objects THEN objects[id].obj ELSE <<NoId>>

\* Gc::deref through a handle the host holds.
DerefGc(id) ==
    /\ Running
    /\ gcs[id] > 0
    /\ panicked' = IF Upgradable(id) THEN panicked
                   ELSE "object should still be alive"
    /\ yielded' = IF Upgradable(id)
                  THEN [ok |-> TRUE, id |-> id, obj |-> PayloadOf(id)]
                  ELSE NoYield
    /\ run' = run
    /\ cycle' = NoCycle
    /\ scenario' = Idle
    /\ UNCHANGED <<objects, next_id, collect_threshold, roots, gcs,
                   auto_collections, assigned>>

\* The host rebinds Gc field `slot` of object o to a Gc to t that it held,
\* reaching o's payload through o's Root or through another Gc to o
\* (tests: *b.borrow_mut() = a.as_gc()).  The field's old Gc is dropped.
Rebind(o, slot, t) ==
    /\ Running
    /\ yielded' = NoYield
    /\ run' = run
    /\ o \in DOMAIN objects
    /\ slot \in 1 .. Len(objects[o].obj)
    /\ gcs[t] > 0
    /\ \/ o \in roots
       \/ gcs[o] - (IF o = t THEN 1 ELSE 0) > 0
    /\ objects' = [objects EXCEPT ![o].obj[slot] = t]
    /\ gcs' = [gcs EXCEPT ![t] = @ - 1]
    /\ cycle' = NoCycle
    /\ scenario' = Idle
    /\ UNCHANGED <<next_id, collect_threshold, roots, panicked,
                   auto_collections, assigned>>

\* Heap::object_count() called by the host.
CountObjects ==
    /\ Running
    /\ yielded' = NoYield
    /\ run' = run
    /\ cycle' = NoCycle
    /\ scenario' = Idle
    /\ UNCHANGED <<objects, next_id, collect_threshold, roots, gcs, panicked,
                   auto_collections, assigned>>

Next ==
    \/ \E t \in Payloads : Allocate(t)
    \/ Collect
    \/ \E id \in Ids : DropRoot(id)
    \/ \E id \in Ids : ToGc(id)
    \/ \E id \in Ids : AsGc(id)
    \/ \E id \in Ids : CloneGc(id)
    \/ \E id \in Ids : DropGc(id)
    \/ \E id \in Ids : DerefGc(id)
    \/ \E o \in Ids, slot \in 1 .. MaxFields, t \in Ids : Rebind(o, slot, t)
    \/ CountObjects

Spec == Init /\ [][Next]_vars

----------------------------------------------------------------------------
\* allocate() and collect() step by step: one step per entry visited by a
\* retain of the pre-pass, per test of the pre-pass loop, per Gc popped by
\* mark, and one for the sweep and the return.  The single thread gives
\* the host no step while a collection runs.

\* The locals of a collect() call that enters its pre-pass loop, the table
\* being iterated in `order`.
Enter(who, t, id, order) ==
    [pc |-> "retain", caller |-> who, t |-> t, id |-> id,
     before |-> objects,
     starting_count |-> StartingCount(objects, objects),
     order |-> order, count |-> Cardinality(DOMAIN objects), todo |-> order,
     tracer |-> <<>>, traced |-> [o \in Ids |-> 0]]

\* The record of a collect() call that found the table empty.
EmptyCycle(isAuto) ==
    [ran |-> TRUE, auto |-> isAuto, completed |-> TRUE, before |-> <<>>,
     seeds |-> roots, after |-> {}, ret |-> 0]

\* The host calls allocate(t): the id is drawn, and either the header is
\* inserted at once or collect() is entered first.
CallAllocate(t) ==
    /\ Running
    /\ next_id < StepAllocs
    /\ Holds(t)
    /\ LET id == next_id
       IN /\ next_id' = BumpId(id)
          /\ assigned' = assigned \cup {id}
          /\ gcs' = MoveOut(t)
          /\ IF collect_threshold = 0
             THEN /\ panicked' = "remainder by zero"
                  /\ cycle' = NoCycle
                  /\ UNCHANGED <<objects, roots, auto_collections, run>>
             ELSE IF ShouldCollect(id, collect_threshold) /\ DOMAIN objects # {}
             THEN /\ auto_collections' = auto_collections + 1
                  /\ \E order \in OrdersOf[DOMAIN objects] :
                        run' = Enter("allocate", t, id, order)
                  /\ cycle' = NoCycle
                  /\ UNCHANGED <<objects, roots, panicked>>
             ELSE /\ objects' = (id :> NewHeader(t)) @@ objects
                  /\ roots' = roots \cup {id}
                  /\ auto_collections' =
                        IF ShouldCollect(id, collect_threshold)
                        THEN auto_collections + 1 ELSE auto_collections
                  /\ cycle' = IF ShouldCollect(id, collect_threshold)
                              THEN EmptyCycle(TRUE) ELSE NoCycle
                  /\ UNCHANGED <<panicked, run>>
    /\ scenario' = Idle
    /\ yielded' = NoYield
    /\ UNCHANGED collect_threshold

\* The host calls collect(): it returns 0 on an empty table, and enters
\* the pre-pass loop otherwise.
CallCollect ==
    /\ Running
    /\ IF DOMAIN objects = {}
       THEN /\ cycle' = EmptyCycle(FALSE)
            /\ run' = run
       ELSE /\ \E order \in OrdersOf[DOMAIN objects] :
                  run' = Enter("collect", <<>>, NoId, order)
            /\ cycle' = NoCycle
    /\ scenario' = Idle
    /\ yielded' = NoYield
    /\ UNCHANGED <<objects, next_id, collect_threshold, roots, gcs, panicked,
                   auto_collections, assigned>>

\* The collect() call in progress has the control.
Collecting(at) == panicked = "none" /\ run.pc = at

\* retain() of the pre-pass visits the next entry and keeps or drops it.
RetainStep ==
    /\ Collecting("retain")
    /\ run.todo # <<>>
    /\ LET id == Head(run.todo)
       IN objects' = IF PrePassKeeps(objects, roots, gcs, run.t, id)
                     THEN objects
                     ELSE Restrict(objects, DOMAIN objects \ {id})
    /\ run' = [run EXCEPT !.todo = Tail(@)]
    /\ UNCHANGED <<next_id, collect_threshold, roots, gcs, panicked, cycle,
                   auto_collections, assigned, scenario, yielded>>

\* A retain() is over: the loop breaks, and the root Vec is built, or it
\* goes round again.
RetainEnd ==
    /\ Collecting("retain")
    /\ run.todo = <<>>
    /\ run' = IF PrePassDone(Cardinality(DOMAIN objects), run.count)
              THEN [run EXCEPT
                      !.pc = "mark",
                      !.tracer = BuildRoots(objects, roots,
                                            SelectIn(run.order, DOMAIN objects))]
              ELSE [run EXCEPT
                      !.count = Cardinality(DOMAIN objects),
                      !.todo = SelectIn(run.order, DOMAIN objects)]
    /\ UNCHANGED <<objects, next_id, collect_threshold, roots, gcs, panicked,
                   cycle, auto_collections, assigned, scenario, yielded>>

\* One turn of the while-let loop of mark(): a Gc is popped and resolved;
\* a marked header is passed over, an unmarked one is marked and traced.
MarkStep ==
    /\ Collecting("mark")
    /\ run.tracer # <<>>
    /\ LET gc == run.tracer[Len(run.tracer)]
           rest == SubSeq(run.tracer, 1, Len(run.tracer) - 1)
       IN IF gc \notin DOMAIN objects
          THEN /\ panicked' = "dangling edge"
               /\ run' = [run EXCEPT !.tracer = rest]
               /\ cycle' = [ran |-> TRUE, auto |-> run.caller = "allocate",
                            completed |-> FALSE, before |-> run.before,
                            seeds |-> roots, after |-> DOMAIN objects,
                            ret |-> 0]
               /\ UNCHANGED objects
          ELSE IF HeaderMarked(objects[gc])
          THEN /\ run' = [run EXCEPT !.tracer = AfterMarked(rest)]
               /\ UNCHANGED <<objects, panicked, cycle>>
          ELSE /\ objects' = [objects EXCEPT ![gc] = HeaderMark(@)]
               /\ run' = [run EXCEPT
                            !.tracer = rest \o Trace(objects[gc]),
                            !.traced[gc] = IF @ < 2 THEN @ + 1 ELSE @]
               /\ UNCHANGED <<panicked, cycle>>
    /\ UNCHANGED <<next_id, collect_threshold, roots, gcs, auto_collections,
                   assigned, scenario, yielded>>

\* The worklist is empty: mark() returns.
MarkEnd ==
    /\ Collecting("mark")
    /\ run.tracer = <<>>
    /\ run' = [run EXCEPT !.pc = "sweep"]
    /\ UNCHANGED <<objects, next_id, collect_threshold, roots, gcs, panicked,
                   cycle, auto_collections, assigned, scenario, yielded>>

\* sweep(), the return of collect(), and in allocate() the insertion of the
\* new header and the return of its Root.
SweepReturn ==
    /\ Collecting("sweep")
    /\ LET swept == Sweep(objects)
       IN /\ cycle' = [ran |-> TRUE, auto |-> run.caller = "allocate",
                       completed |-> TRUE, before |-> run.before,
                       seeds |-> roots, after |-> DOMAIN swept,
                       ret |-> run.starting_count - Cardinality(DOMAIN swept)]
          /\ IF run.caller = "allocate"
             THEN /\ objects' = (run.id :> NewHeader(run.t)) @@ swept
                  /\ roots' = roots \cup {run.id}
             ELSE /\ objects' = swept
                  /\ roots' = roots
    /\ run' = NotRunning
    /\ UNCHANGED <<next_id, collect_threshold, gcs, panicked,
                   auto_collections, assigned, scenario, yielded>>

\* The steps of a collect() call in progress.
CollectSteps == RetainStep \/ RetainEnd \/ MarkStep \/ MarkEnd \/ SweepReturn

\* CloneGc, DerefGc and CountObjects are left to Spec: they change nothing
\* a collection reads but a weak count that is positive already.
StepNext ==
    \/ \E t \in Payloads : CallAllocate(t)
    \/ CallCollect
    \/ RetainStep
    \/ RetainEnd
    \/ MarkStep
    \/ MarkEnd
    \/ SweepReturn
    \/ \E id \in Ids : DropRoot(id)
    \/ \E id \in Ids : ToGc(id)
    \/ \E id \in Ids : AsGc(id)
    \/ \E id \in Ids : DropGc(id)
    \/ \E o \in Ids, slot \in 1 .. MaxFields, t \in Ids : Rebind(o, slot, t)

\* collect() is synchronous: once called it is the only code that runs,
\* and it takes its next step.
StepSpec == Init /\ [][StepNext]_vars /\ WF_vars(CollectSteps)

----------------------------------------------------------------------------
\* Notions the properties are stated with.

RECURSIVE Closure(_, _)
\* The objects reached from S through the Gc fields of the payloads of objs.
Closure(S, objs) ==
    LET step == S \cup UNION {Range(objs[o].obj) : o \in S \cap DOMAIN objs}
    IN IF step = S THEN S ELSE Closure(step, objs)

\* Every Gc field of object a points at b, and a has one at least.
OnlyEdge(objs, a, b) == objs[a].obj # <<>> /\ Range(objs[a].obj) = {b}

\* a and b are the two members of a reference cycle a <-> b.
TwoCycle(objs, a, b) ==
    /\ a # b
    /\ OnlyEdge(objs, a, b)
    /\ OnlyEdge(objs, b, a)

\* The last operation made a collect() call that returned.
Collected == cycle.ran /\ cycle.completed

\* The objects reachable from the Roots live at the last collect() call.
Reachable == Closure(cycle.seeds, cycle.before)

----------------------------------------------------------------------------
\* C1: whenever a collect() call returns, explicit or made by allocate(), the
\* table holds exactly the objects reached from the live Roots through Gc
\* edges, so object_count() is the size of that closure.
CollectLeavesClosure ==
    Collected =>
        /\ cycle.after = Reachable
        /\ Cardinality(cycle.after) = Cardinality(Reachable)
        /\ ~cycle.auto => ObjectCount(objects) = Cardinality(Reachable)

\* A collect() returned having reclaimed something and having kept an object
\* that has no Root, for the edge that leads to it.
CollectLeavesClosureWitness ==
    /\ Collected
    /\ cycle.ret > 0
    /\ cycle.after \ cycle.seeds # {}

\* C2: an object whose Root is held is in the table in every state, and every
\* collect() call keeps the objects rooted when it is made; object_count()
\* is at least the number of live Roots.
RootedNeverRemoved ==
    /\ roots \subseteq DOMAIN objects
    /\ ObjectCount(objects) >= Cardinality(roots)
    /\ cycle.ran => cycle.seeds \subseteq cycle.after

\* A collection triggered inside allocate() reclaimed something while two
\* Roots were held.
RootedNeverRemovedWitness ==
    /\ Collected
    /\ cycle.auto
    /\ cycle.ret > 0
    /\ Cardinality(cycle.seeds) >= 2

\* C3: after a collect() call returns, an object with no Root that is the
\* target of no edge of an object reachable from a live Root is gone,
\* whatever the number of Gc handles to it the host holds.
UnrootedGcsDoNotSurvive ==
    Collected =>
        \A id \in DOMAIN cycle.before :
            (/\ id \notin cycle.seeds
             /\ \A o \in Reachable \cap DOMAIN cycle.before :
                    id \notin Range(cycle.before[o].obj))
            => id \notin cycle.after

\* An explicit collect() removed an object the host holds a Gc handle to.
UnrootedGcsDoNotSurviveWitness ==
    /\ Collected
    /\ ~cycle.auto
    /\ \E id \in DOMAIN cycle.before \ cycle.after : gcs[id] > 0

\* C4: allocate A; convert A's Root into a Gc; allocate B with that Gc in its
\* payload and keep B's Root; collect(): A and B are both in the table, for
\* every threshold and every number of earlier allocations.
RootedGcsSurvive ==
    scenario.stage = "collected" =>
        /\ panicked = "none"
        /\ {scenario.a, scenario.b} \subseteq DOMAIN objects

\* C5: no collect(), explicit or made by allocate(), reaches the panic of the
\* mark phase on an edge whose target has been reclaimed.
NoDanglingEdgeFailure == panicked # "dangling edge"

\* C6 as stated: a two-object cycle with no Root on either member is gone
\* after one collect() call.
UnrootedCycleReclaimed ==
    Collected =>
        \A a, b \in DOMAIN cycle.before :
            (TwoCycle(cycle.before, a, b) /\ {a, b} \cap cycle.seeds = {})
            => /\ {a, b} \cap cycle.after = {}
               /\ cycle.ret >= 2

\* C6 amended: a two-object cycle with no Root on either member, and which no
\* object reachable from a live Root has an edge into, is gone after one
\* collect() call that returns, and accounts for 2 of the objects reclaimed.
UnreachableCycleReclaimed ==
    Collected =>
        \A a, b \in DOMAIN cycle.before :
            (/\ TwoCycle(cycle.before, a, b)
             /\ {a, b} \cap cycle.seeds = {}
             /\ {a, b} \cap Reachable = {})
            => /\ {a, b} \cap cycle.after = {}
               /\ cycle.ret >= 2

\* A collect() call met an unrooted, unreachable two-object cycle while
\* another object was rooted.
UnreachableCycleReclaimedWitness ==
    /\ Collected
    /\ cycle.seeds # {}
    /\ \E a, b \in DOMAIN cycle.before :
          /\ TwoCycle(cycle.before, a, b)
          /\ {a, b} \cap Reachable = {}

\* C7: a two-object cycle with a Root on exactly one member is kept whole by
\* a collect() call.
HalfRootedCycleKept ==
    Collected =>
        \A a, b \in DOMAIN cycle.before :
            (/\ TwoCycle(cycle.before, a, b)
             /\ a \in cycle.seeds
             /\ b \notin cycle.seeds)
            => {a, b} \subseteq cycle.after

\* A collect() call met a two-object cycle whose one member alone is rooted,
\* that member being the only Root held.
HalfRootedCycleKeptWitness ==
    /\ Collected
    /\ \E a, b \in DOMAIN cycle.before :
          /\ TwoCycle(cycle.before, a, b)
          /\ cycle.seeds = {a}

\* C8: collect() returns object_count() before the call minus object_count()
\* after it; on an empty table it returns 0 and leaves the table empty.
CollectReturnsDifference ==
    Collected =>
        /\ cycle.ret = ObjectCount(cycle.before) - Cardinality(cycle.after)
        /\ ~cycle.auto => cycle.ret = ObjectCount(cycle.before) - ObjectCount(objects)
        /\ DOMAIN cycle.before = {} => cycle.ret = 0 /\ cycle.after = {}

\* An explicit collect() whose pre-pass removed an object and whose sweep
\* removed another.
CollectReturnsDifferenceWitness ==
    /\ Collected
    /\ ~cycle.auto
    /\ LET pruned == PrePass(cycle.before, cycle.seeds, gcs, <<>>,
                             Ascending(DOMAIN cycle.before))
       IN /\ DOMAIN pruned # DOMAIN cycle.before
          /\ DOMAIN pruned # cycle.after

\* C9: with threshold T >= 1, the first N allocate() calls on a heap make at
\* least N \div T automatic collect() calls.
AutoCollectionsAtLeastFloor ==
    collect_threshold >= 1 =>
        auto_collections >= next_id \div collect_threshold

\* Two allocations at threshold 2 have made their collection.
AutoCollectionsAtLeastFloorWitness ==
    /\ collect_threshold = 2
    /\ next_id = 2
    /\ auto_collections = 1

\* C10: allocate() hands out an id greater than every id handed out before,
\* an id that is no key of the table.
IdsNeverReassigned ==
    [][(\E t \in Payloads : Allocate(t)) =>
         /\ next_id \notin assigned
         /\ \A id \in assigned : id < next_id
         /\ next_id \notin DOMAIN objects]_vars

\* Every id has been handed out, the first of them reclaimed since.
IdsNeverReassignedWitness ==
    /\ assigned = Ids
    /\ 0 \notin DOMAIN objects
    /\ MaxAllocs - 1 \in DOMAIN objects

----------------------------------------------------------------------------
\* The payloads the host can hand to allocate() in this state; with <<>> the
\* collection of allocate() sees what a collect() call of the host sees.
Affordable == {t \in Payloads : Holds(t)}

\* The table the pre-pass leaves when collect() runs in this state with the
\* payload t in flight.
PrePassHere(t, order) == PrePass(objects, roots, MoveOut(t), t, order)

\* C11: whenever allocate() or collect() has returned, and between
\* operations, no header of the table is marked.
MarksClearOutsideCollect ==
    Running => \A id \in DOMAIN objects : ~HeaderMarked(objects[id])

\* A collect() call returned and left two objects, which it had marked.
MarksClearOutsideCollectWitness ==
    /\ Collected
    /\ Cardinality(cycle.after) >= 2
    /\ cycle.after \subseteq DOMAIN objects
    /\ \A id \in cycle.after : ~HeaderMarked(objects[id])

\* C14: from every state, a collect() that skips the pre-pass panics exactly
\* when collect() does, and otherwise leaves the same objects in the table
\* and returns the same count.
PrePassNotRequired ==
    Running =>
        \A t \in Affordable : \A order \in IterationOrders(objects, roots) :
            LET with == CollectResult(objects, roots, MoveOut(t), t, order)
                without == CollectFrom(objects, objects, roots, order)
            IN /\ with.dangling = without.dangling
               /\ ~with.dangling =>
                     /\ DOMAIN with.objects = DOMAIN without.objects
                     /\ with.ret = without.ret

\* A state in which the pre-pass removes an object and the sweep another.
PrePassNotRequiredWitness ==
    /\ Running
    /\ \E order \in IterationOrders(objects, roots) :
          LET pruned == PrePassHere(<<>>, order)
              res == CollectResult(objects, roots, gcs, <<>>, order)
          IN /\ ~res.dangling
             /\ DOMAIN pruned # DOMAIN objects
             /\ DOMAIN res.objects # DOMAIN pruned
             /\ DOMAIN res.objects # {}

\* C15: allocate() calls collect() exactly when the id it draws is 0 modulo
\* the threshold; that collection neither meets nor removes the new object;
\* when allocate() returns the new object is in the table under its id,
\* unmarked, beside what the collection left.
AllocateCollectsThenInserts ==
    [][\A t \in Payloads :
         (Allocate(t) /\ collect_threshold >= 1) =>
            /\ cycle'.ran <=> (next_id % collect_threshold) = 0
            /\ cycle'.ran =>
                  /\ cycle'.auto
                  /\ next_id \notin DOMAIN cycle'.before
                  /\ next_id \notin cycle'.after
            /\ panicked' = "none" =>
                  /\ next_id \in DOMAIN objects'
                  /\ objects'[next_id] = [marked |-> FALSE, obj |-> t]
                  /\ cycle'.ran => DOMAIN objects' = cycle'.after \cup {next_id}
                  /\ ~cycle'.ran =>
                        DOMAIN objects' = DOMAIN objects \cup {next_id}]_vars

\* An allocate() returned whose collection reclaimed an object and kept
\* none: the new object is alone in the table.
AllocateCollectsThenInsertsWitness ==
    /\ Collected
    /\ cycle.auto
    /\ cycle.ret > 0
    /\ cycle.after = {}
    /\ DOMAIN objects = {next_id - 1}

\* C16: the root Vec collect() builds holds exactly the table objects whose
\* Root is held; an entry's ownership count is 1, or 2 with its Root, and is
\* above 1 exactly when the Root is held.
RootSetIsLiveRoots ==
    Running =>
        /\ \A t \in Affordable : \A order \in IterationOrders(objects, roots) :
              LET pruned == PrePassHere(t, order)
                  rootVec == BuildRoots(pruned, roots,
                                        SelectIn(order, DOMAIN pruned))
              IN /\ Range(rootVec) = roots
                 /\ Len(rootVec) = Cardinality(roots)
        /\ \A id \in DOMAIN objects :
              /\ StrongCount(objects, roots, id) \in {1, 2}
              /\ IsRoot(objects, roots, id) <=> id \in roots

\* A state with a rooted object, and an unrooted one that a host Gc handle
\* carries through the pre-pass.
RootSetIsLiveRootsWitness ==
    /\ Running
    /\ roots # {}
    /\ \E id \in DOMAIN objects \ roots :
          /\ gcs[id] > 0
          /\ \E order \in IterationOrders(objects, roots) :
                id \in DOMAIN PrePassHere(<<>>, order)

\* Object id has no Root, no Gc handle outside the table, and edges into it
\* from the objects of S only.
OnlyFrom(id, S, t) ==
    /\ id \in DOMAIN objects \ roots
    /\ gcs[id] = 0
    /\ id \notin Range(t)
    /\ \A o \in DOMAIN objects \ S : id \notin Range(objects[o].obj)

\* C18: when the pre-pass ends, every object left in the table has a Root or
\* a Gc handle still in existence; a chain a -> b of unrooted objects that
\* nothing outside the chain points into is gone when it ends.
PrePassReachesFixedPoint ==
    Running =>
        \A t \in Affordable : \A order \in IterationOrders(objects, roots) :
            LET pruned == PrePassHere(t, order)
            IN /\ \A id \in DOMAIN pruned :
                     \/ id \in roots
                     \/ WeakCount(pruned, MoveOut(t), t, id) > 0
               /\ \A a, b \in DOMAIN objects :
                     (a # b /\ OnlyFrom(a, {}, t) /\ OnlyFrom(b, {a}, t))
                     => {a, b} \cap DOMAIN pruned = {}

\* A chain a -> b of unrooted objects with no other Gc to them, b older than
\* a, so that the pass that removes a has met b before.
PrePassReachesFixedPointWitness ==
    /\ Running
    /\ \E a, b \in DOMAIN objects :
          /\ b < a
          /\ b \in Range(objects[a].obj)
          /\ OnlyFrom(a, {}, <<>>)
          /\ OnlyFrom(b, {a}, <<>>)

\* C19: dropping a Root, converting it to a Gc, cloning or dropping a Gc,
\* rebinding an edge and object_count() leave the table's keys and the id
\* counter as they are; a step that takes an object out of the table is a
\* step that ran collect().
ObjectsLeaveOnlyInCollect ==
    [][/\ (\/ \E id \in Ids : DropRoot(id) \/ ToGc(id) \/ AsGc(id)
           \/ \E id \in Ids : CloneGc(id) \/ DropGc(id)
           \/ \E o \in Ids, slot \in 1 .. MaxFields, t \in Ids : Rebind(o, slot, t)
           \/ CountObjects)
          => /\ DOMAIN objects' = DOMAIN objects
             /\ ObjectCount(objects') = ObjectCount(objects)
             /\ next_id' = next_id
       /\ ~(DOMAIN objects \subseteq DOMAIN objects') => cycle'.ran]_vars

\* The Root of an object was dropped or converted, nothing reaches the
\* object from a Root, and object_count() still counts it.
ObjectsLeaveOnlyInCollectWitness ==
    /\ Running
    /\ ~cycle.ran
    /\ \E id \in DOMAIN objects :
          /\ id \notin Closure(roots, objects)
          /\ ObjectCount(objects) > Cardinality(Closure(roots, objects) \cap DOMAIN objects)

\* C20: the threshold of every Heap is at least 1, and allocate() never
\* fails on its remainder.
ThresholdAtLeastOne ==
    /\ collect_threshold >= 1
    /\ panicked # "remainder by zero"

\* C12: a Gc::deref through a handle the host holds yields the target's
\* payload exactly when the target is in the table and panics exactly when
\* it is not; either way the table is as it was.
DerefYieldsIffPresent ==
    [][\A id \in Ids :
         DerefGc(id) =>
            /\ objects' = objects
            /\ id \in DOMAIN objects <=> yielded'.ok
            /\ id \in DOMAIN objects =>
                  /\ panicked' = "none"
                  /\ yielded' = [ok |-> TRUE, id |-> id, obj |-> objects[id].obj]
            /\ id \notin DOMAIN objects <=>
                  panicked' = "object should still be alive"]_vars

\* A deref has yielded the payload of an unrooted object, a payload that
\* holds a Gc; and the host holds a Gc to a reclaimed object.
DerefYieldsIffPresentWitness ==
    /\ yielded.ok
    /\ yielded.id \notin roots
    /\ yielded.obj # <<>>
    /\ \E id \in Ids : gcs[id] > 0 /\ id \in assigned \ DOMAIN objects

\* The marked headers of the table.
MarkedSet == {id \in DOMAIN objects : HeaderMarked(objects[id])}

\* C13: a collect() call that has started runs to completion: its pre-pass
\* loop ends, its worklist empties and it returns; in one call no object is
\* marked and traced twice.
CollectRunsToCompletion ==
    /\ [](\A id \in Ids : run.traced[id] <= 1)
    /\ (run.pc # "idle") ~> (run.pc = "idle")

\* What the code does keep of C13: a call that has started returns, or
\* panics in mark, after finitely many steps, whatever cycles and
\* self-edges the graph has, and traces no object twice.
CollectTerminates ==
    /\ [](\A id \in Ids : run.traced[id] <= 1)
    /\ (run.pc # "idle") ~> (run.pc = "idle" \/ panicked # "none")

\* The mark phase of a call has ended on a graph with a two-object cycle, or
\* a self-edge, that it walked, after a pre-pass that removed an object.
CollectTerminatesWitness ==
    /\ Collecting("sweep")
    /\ run.starting_count > ObjectCount(objects)
    /\ \E a \in MarkedSet : \E b \in MarkedSet :
          /\ a \in Range(objects[b].obj)
          /\ b \in Range(objects[a].obj)
          /\ run.traced[a] = 1
          /\ run.traced[b] = 1

\* C17: when the mark phase ends the marked objects are those reachable from
\* the rooted objects through the reported Gc edges, in whatever order the
\* table was iterated and the worklist therefore popped.
MarkedSetIsReachable ==
    Collecting("sweep") => MarkedSet = Closure(roots, objects)

\* The mark phase has ended after seeding two roots against the order of
\* their ids and reaching an unrooted object.
MarkedSetIsReachableWitness ==
    /\ Collecting("sweep")
    /\ \E i, j \in 1 .. Len(run.order) :
          /\ i < j
          /\ run.order[i] > run.order[j]
          /\ {run.order[i], run.order[j]} \subseteq roots
    /\ MarkedSet \ roots # {}

====
